---------------------------- MODULE Spec2Model ----------------------------
(* A model of the electrical-board library: the lazily loading resource   *)
(* store of src/lib/ser/store.cpp, the FreeList slotted container of      *)
(* src/lib/util/freelist.hpp and the board graph of src/lib/lib.cpp.      *)
(* Each part has its own specifications; the variables of the other      *)
(* parts stay at their initial values.                                    *)
EXTENDS Integers, Sequences, FiniteSets, TLC

VARIABLES
    \* ---- LazyResourceStore / TypeId (src/lib/ser/store.hpp) ----
    IDX,        \* TypeId::IDX, the static counter
    typeIds,    \* the function-local statics of TypeId::id<T>: type -> id
    m_res,      \* LazyResourceStore::m_res : type id -> Slot
    objs,       \* every object a loader returned: obj -> [ty, id, held]
    files,      \* the resource files on disk: <<type, id>> -> FileStates
    fileReads,  \* number of files opened by try_get_id
    fileChanges,\* number of edits made to the resource files so far
    loads,      \* number of load_untyped calls made by try_get_id
    sres,       \* what the last try_get returned or threw
    id_str,     \* the id handed to a try_get_id that misses the cache
    id_ty,      \* the type that try_get_id was called for
    resource_path, \* the path try_get_id opens for it, NoPath before it has
    \* ---- SingleVec<T> (src/lib/util/singlevec.hpp) ----
    m_elems,    \* SingleVec::m_elems
    svres,      \* the last SingleVec operation and size() before it
    \* ---- StackVec<T, MAX_STACK> (src/lib/util/stackvec.hpp) ----
    m_len,      \* StackVec::m_len
    m_cap,      \* StackVec::m_cap
    kres,       \* what the last StackVec operation did
    \* ---- FreeList<T> (src/lib/util/freelist.hpp) ----
    ndebug,     \* the build: TRUE when assert() is compiled out
    m_vec,      \* FreeList::m_vec, slot i is m_vec[i + 1]
    free,       \* FreeList::free, head of the chain of free slots
    placed,     \* history: the value the latest emplace put at an index
    erased,     \* history: the erased slots not filled again, in the order of their erasure
    fres,       \* what the last FreeList operation returned or threw
    iter,       \* a ConstIterator in a loop over the list, or NoIter
    visited,    \* history: the indices index() gave at each visit of the loop
    \* ---- BoardGraph (src/lib/lib.hpp) ----
    unrolledFind, \* the build: TRUE when std::find_if is the unrolled
                  \* random-access loop, FALSE when it is the plain loop
    m_nodes,    \* BoardGraph::m_nodes : node id -> ComponentNode
    m_edges,    \* BoardGraph::m_edges : edge id -> WireEdge
    loadCalls,  \* number of from_json calls so far
    connCalls,  \* number of connnect_port calls so far
    reads,      \* history: the reads of the union of a Connection made by the
                \* last operation: read as which member, while holding which
    gres,       \* what the last graph operation returned or threw
    m_path,     \* BoardGraph::m_path: whether the path has a parent directory
    m_save,     \* BoardGraph::m_save
    disk,       \* the file at m_path
    life        \* the BoardGraph object: not yet constructed, alive, threw in
                \* its constructor, crashed, or destroyed

pathVars == <<id_str, id_ty, resource_path>>
vecVars == <<m_elems, svres, m_len, m_cap, kres>>
storeVars == <<IDX, typeIds, m_res, objs, files, fileReads, fileChanges, loads, sres, pathVars, vecVars>>
listVars == <<ndebug, m_vec, free, placed, erased, fres, iter, visited>>
boardVars == <<m_path, m_save, disk, life>>
graphVars == <<unrolledFind, m_nodes, m_edges, loadCalls, connCalls, reads, gres, boardVars>>

--------------------------------------------------------------------------
(* Bounds of the model.                                                   *)

\* file opens performed by the store in one behaviour
MaxReads == 2
\* strong handles callers hold on one resource at a time
MaxHandles == 2
\* edits made to the resource files while the program runs
MaxFileChanges == 1
\* slots the backing vector of the FreeList may grow to
MaxSlots == 3
\* visits of one iteration loop that are recorded
MaxVisits == 4
\* calls of BoardGraph::from_json on one graph
MaxLoads == 2

MaxConnects == 2
\* characters of an id whose path is built
MaxIdLen == 3
\* elements a SingleVec may grow to
MaxElems == 4
\* the template parameter MAX_STACK of the StackVec, and the length it may grow to
MAX_STACK == 2

MaxStackLen == 3

--------------------------------------------------------------------------
(* Generic helpers.                                                       *)

Put(f, k, v) == [x \in DOMAIN f \cup {k} |-> IF x = k THEN v ELSE f[x]]

Drop(f, k) == [x \in DOMAIN f \ {k} |-> f[x]]

EmptyMap == [x \in {} |-> 0]

--------------------------------------------------------------------------
(* LazyResourceStore                                                      *)

Types == {"Component", "Connector"}

ResIds == {"r1", "r2"}

\* what opening, parsing and deserializing a resource file does:
\* "unreadable" throws in open or in operator>>, "rejected" throws in the loader
FileStates == {"valid", "unreadable", "rejected"}

\* a default constructed WeakRef<void>
NoObj == 0

\* TypeId::id<T>() with an ID that is not static: every call takes IDX
TypeIdsFresh(T) == Put(typeIds, T, IDX)

\* TypeId::id<T>(): the static ID is initialised from IDX++ on the first call
TypeIdsAfter(T) == IF T \in DOMAIN typeIds THEN typeIds ELSE Put(typeIds, T, IDX)

IdxAfter(T) == IF T \in DOMAIN typeIds THEN IDX ELSE IDX + 1

TypeIdVal(T) == TypeIdsAfter(T)[T]

\* WeakRef::expired(): no strong handle is left
ExpiredNever(o) == FALSE

Expired(o) == o = NoObj \/ objs[o].held = 0

\* the object a cache slot gives for id without loading, or NoObj
CachedObj(slot, id) ==
    IF id \in DOMAIN slot.cache /\ ~Expired(slot.cache[id]) THEN slot.cache[id] ELSE NoObj

NewObj == Len(objs) + 1

\* LazyResourceStore::register_loader<T>: m_res.emplace keeps an existing slot
RegisterLoader(T) ==
    /\ typeIds' = TypeIdsAfter(T)
    /\ IDX' = IdxAfter(T)
    /\ m_res' = IF TypeIdVal(T) \in DOMAIN m_res THEN m_res
                ELSE Put(m_res, TypeIdVal(T), [loader |-> T, cache |-> EmptyMap])
    /\ UNCHANGED sres
    /\ UNCHANGED <<objs, files, fileReads, loads, fileChanges>>
    /\ UNCHANGED <<pathVars, vecVars, listVars, graphVars>>

\* what the message of an exception thrown by try_get_id names: the type name
\* in both messages (lines 83 and 111), the id in the second only
Names(T, id) == [ty |-> T, id |-> id]

NoMsg == Names("", "")

\* the cache-miss half of try_get_id without the catch block: what open,
\* operator>> or the loader throws reaches the caller as it is
TryGetMissUnwrapped(T, id, tid) ==
    /\ fileReads < MaxReads
    /\ fileReads' = fileReads + 1
    /\ CASE files[<<T, id>>] = "unreadable" ->
              /\ sres' = [ty |-> T, id |-> id,
                          kind |-> "load_error", obj |-> NoObj,
                          msg |-> NoMsg]
              /\ UNCHANGED <<m_res, objs, loads>>
         [] files[<<T, id>>] = "rejected" ->
              /\ m_res' = [m_res EXCEPT ![tid].cache = Put(@, id, NoObj)]
              /\ loads' = loads + 1
              /\ sres' = [ty |-> T, id |-> id,
                          kind |-> "load_error", obj |-> NoObj,
                          msg |-> NoMsg]
              /\ UNCHANGED objs
         [] files[<<T, id>>] = "valid" ->
              /\ objs' = Append(objs, [ty |-> T, id |-> id, held |-> 1])
              /\ m_res' = [m_res EXCEPT ![tid].cache = Put(@, id, NewObj)]
              /\ loads' = loads + 1
              /\ sres' = [ty |-> T, id |-> id,
                          kind |-> "loaded", obj |-> NewObj, msg |-> NoMsg]

\* the cache-miss half of try_get_id with a catch block that empties the
\* cache of the type before it rethrows
TryGetMissClearingCache(T, id, tid) ==
    /\ fileReads < MaxReads
    /\ fileReads' = fileReads + 1
    /\ CASE files[<<T, id>>] = "unreadable" ->
              /\ m_res' = [m_res EXCEPT ![tid].cache = EmptyMap]
              /\ sres' = [ty |-> T, id |-> id,
                          kind |-> "load_error", obj |-> NoObj,
                          msg |-> Names(T, id)]
              /\ UNCHANGED <<objs, loads>>
         [] files[<<T, id>>] = "rejected" ->
              /\ m_res' = [m_res EXCEPT ![tid].cache = EmptyMap]
              /\ loads' = loads + 1
              /\ sres' = [ty |-> T, id |-> id,
                          kind |-> "load_error", obj |-> NoObj,
                          msg |-> Names(T, id)]
              /\ UNCHANGED objs
         [] files[<<T, id>>] = "valid" ->
              /\ objs' = Append(objs, [ty |-> T, id |-> id, held |-> 1])
              /\ m_res' = [m_res EXCEPT ![tid].cache = Put(@, id, NewObj)]
              /\ loads' = loads + 1
              /\ sres' = [ty |-> T, id |-> id,
                          kind |-> "loaded", obj |-> NewObj, msg |-> NoMsg]

\* the cache-miss half of try_get_id, lines 92-112
TryGetMiss(T, id, tid) ==
    /\ fileReads < MaxReads
    /\ fileReads' = fileReads + 1
    /\ CASE files[<<T, id>>] = "unreadable" ->
              /\ sres' = [ty |-> T, id |-> id,
                          kind |-> "load_error", obj |-> NoObj,
                          msg |-> Names(T, id)]
              /\ UNCHANGED <<m_res, objs, loads>>
         [] files[<<T, id>>] = "rejected" ->
              /\ m_res' = [m_res EXCEPT ![tid].cache = Put(@, id, NoObj)]
              /\ loads' = loads + 1
              /\ sres' = [ty |-> T, id |-> id,
                          kind |-> "load_error", obj |-> NoObj,
                          msg |-> Names(T, id)]
              /\ UNCHANGED objs
         [] files[<<T, id>>] = "valid" ->
              /\ objs' = Append(objs, [ty |-> T, id |-> id, held |-> 1])
              /\ m_res' = [m_res EXCEPT ![tid].cache = Put(@, id, NewObj)]
              /\ loads' = loads + 1
              /\ sres' = [ty |-> T, id |-> id,
                          kind |-> "loaded", obj |-> NewObj, msg |-> NoMsg]

\* LazyResourceStore::try_get<T>(id) with try_get_id
TryGetAlwaysLoads(T, id) ==
    /\ typeIds' = TypeIdsAfter(T)
    /\ IDX' = IdxAfter(T)
    /\ IF TypeIdVal(T) \notin DOMAIN m_res
       THEN /\ sres' = [ty |-> T, id |-> id,
                        kind |-> "unregistered", obj |-> NoObj,
                        msg |-> Names(T, "")]
            /\ UNCHANGED <<m_res, objs, fileReads, loads>>
       ELSE TryGetMiss(T, id, TypeIdVal(T))
    /\ UNCHANGED <<files, fileChanges>>
    /\ UNCHANGED <<pathVars, vecVars, listVars, graphVars>>

TryGetOpensFirst(T, id) ==
    /\ typeIds' = TypeIdsAfter(T)
    /\ IDX' = IdxAfter(T)
    /\ fileReads < MaxReads
    /\ fileReads' = fileReads + 1
    /\ sres' = [ty |-> T, id |-> id,
                kind |-> IF TypeIdVal(T) \in DOMAIN m_res THEN "load_error" ELSE "unregistered",
                obj |-> NoObj,
                msg |-> IF TypeIdVal(T) \in DOMAIN m_res THEN Names(T, id) ELSE Names(T, "")]
    /\ UNCHANGED <<m_res, objs, loads, files, fileChanges>>
    /\ UNCHANGED <<pathVars, vecVars, listVars, graphVars>>

TryGet(T, id) ==
    /\ typeIds' = TypeIdsAfter(T)
    /\ IDX' = IdxAfter(T)
    /\ IF TypeIdVal(T) \notin DOMAIN m_res
       THEN /\ sres' = [ty |-> T, id |-> id,
                        kind |-> "unregistered", obj |-> NoObj,
                        msg |-> Names(T, "")]
            /\ UNCHANGED <<m_res, objs, fileReads, loads>>
       ELSE LET slot == m_res[TypeIdVal(T)]
                hit == CachedObj(slot, id)
            IN  IF hit # NoObj
                THEN /\ objs[hit].held < MaxHandles
                     /\ objs' = [objs EXCEPT ![hit].held = @ + 1]
                     /\ sres' = [ty |-> T, id |-> id,
                                 kind |-> "cached", obj |-> hit, msg |-> NoMsg]
                     /\ UNCHANGED <<m_res, fileReads, loads>>
                ELSE TryGetMiss(T, id, TypeIdVal(T))
    /\ UNCHANGED <<files, fileChanges>>
    /\ UNCHANGED <<pathVars, vecVars, listVars, graphVars>>

\* a caller copies a Ref<T> it holds
CopyHandle(o) ==
    /\ objs[o].held > 0
    /\ objs[o].held < MaxHandles
    /\ objs' = [objs EXCEPT ![o].held = @ + 1]
    /\ UNCHANGED sres
    /\ UNCHANGED <<IDX, typeIds, m_res, files, fileReads, loads, fileChanges>>
    /\ UNCHANGED <<pathVars, vecVars, listVars, graphVars>>

\* a caller drops a Ref<T>; the object is destroyed with its last strong handle
Release(o) ==
    /\ objs[o].held > 0
    /\ objs' = [objs EXCEPT ![o].held = @ - 1]
    /\ UNCHANGED sres
    /\ UNCHANGED <<IDX, typeIds, m_res, files, fileReads, loads, fileChanges>>
    /\ UNCHANGED <<pathVars, vecVars, listVars, graphVars>>

\* the file of a resource is edited, removed or restored outside the program
FileChange(T, id, st) ==
    /\ files[<<T, id>>] # st
    /\ fileChanges < MaxFileChanges
    /\ fileChanges' = fileChanges + 1
    /\ files' = [files EXCEPT ![<<T, id>>] = st]
    /\ UNCHANGED sres
    /\ UNCHANGED <<IDX, typeIds, m_res, objs, fileReads, loads>>
    /\ UNCHANGED <<pathVars, vecVars, listVars, graphVars>>

(* ---- Id and the path of a resource file ---- *)

\* a string is the sequence of its characters; the two directories and the
\* extension, which the code never looks into, are one element each
Chars == {"a", ".", "/"}

IdStrs == UNION {[1..n -> Chars] : n \in 0..MaxIdLen}

NoPath == <<"">>

\* ComponentLoader::DIR and ConnectorLoader::DIR
LoaderDir(T) == IF T = "Component" THEN <<"./assets/components">> ELSE <<"./assets/connectors">>

\* find_dots: the positions, counted from 0, of the '.' characters of str from
\* position pos on, in ascending order
RECURSIVE find_dots(_, _)
find_dots(str, pos) ==
    IF pos >= Len(str) THEN <<>>
    ELSE IF str[pos + 1] = "." THEN <<pos>> \o find_dots(str, pos + 1)
    ELSE find_dots(str, pos + 1)

\* Id::to_path on an Id whose m_string is str and whose m_dots is dots
to_path(str, dots) ==
    [i \in 1..Len(str) |-> IF \E k \in 1..Len(dots) : dots[k] = i - 1 THEN "/" ELSE str[i]]

\* std::filesystem::path::operator/ on POSIX: an absolute right operand
\* replaces the left one, otherwise a separator is put after a left operand
\* that ends in a file name
PathJoin(dir, p) ==
    IF p # <<>> /\ p[1] = "/" THEN p
    ELSE IF dir # <<>> /\ dir[Len(dir)] # "/" THEN dir \o <<"/">> \o p
    ELSE dir \o p

\* lines 93-96: Id id{id_str}; id.to_path(); dir() / id.str(); += ".json"
ResourcePath(T, str) ==
    PathJoin(LoaderDir(T), to_path(str, find_dots(str, 0))) \o <<".json">>

\* the path building steps of a try_get_id that misses the cache
BuildPath ==
    /\ resource_path = NoPath
    /\ resource_path' = ResourcePath(id_ty, id_str)
    /\ UNCHANGED <<id_str, id_ty>>
    /\ UNCHANGED <<IDX, typeIds, m_res, objs, files, fileReads, fileChanges, loads, sres>>
    /\ UNCHANGED <<vecVars, listVars, graphVars>>

\* no path is being built
InitPathIdle ==
    /\ id_str = <<>>
    /\ id_ty = "Component"
    /\ resource_path = NoPath

InitPath ==
    /\ id_str \in IdStrs
    /\ id_ty \in Types
    /\ resource_path = NoPath

InitStore ==
    /\ IDX = 0
    /\ typeIds = EmptyMap
    /\ m_res = EmptyMap
    /\ objs = <<>>
    /\ files = [k \in Types \X ResIds |-> "valid"]
    /\ fileReads = 0
    /\ fileChanges = 0
    /\ loads = 0
    /\ sres = [ty |-> "", id |-> "", kind |-> "none", obj |-> NoObj, msg |-> NoMsg]

\* the store at the start of a run in which one resource file cannot be
\* read, or is rejected by its loader, and every other file is valid
InitStoreBroken ==
    /\ IDX = 0
    /\ typeIds = EmptyMap
    /\ m_res = EmptyMap
    /\ objs = <<>>
    /\ files \in {[k \in Types \X ResIds |-> IF k = <<"Component", "r1">> THEN st ELSE "valid"] :
                     st \in FileStates \ {"valid"}}
    /\ fileReads = 0
    /\ fileChanges = 0
    /\ loads = 0
    /\ sres = [ty |-> "", id |-> "", kind |-> "none", obj |-> NoObj, msg |-> NoMsg]

--------------------------------------------------------------------------
(* FreeList<T>                                                            *)

\* FreeList::npos, the largest std::uint32_t (the value size_type(-1)), which
\* is no index of a vector; it is written -1 here and only ever compared for equality
npos == -1

\* the values of T that are stored
Values == {5, 14}

\* ListElem = std::variant<T, Next>
Occupied(v) == [tag |-> "T", val |-> v, next |-> npos]

FreeSlot(n) == [tag |-> "Next", val |-> 0, next |-> n]

\* m_vec[i] of the source, i counted from 0
Elem(i) == m_vec[i + 1]

VecSize == Len(m_vec)

IsFree(i) == Elem(i).tag = "Next"

OccupiedSlots == {i \in 0..(VecSize - 1) : ~IsFree(i)}

\* the loop of free_slots(): the number of links from next to npos
RECURSIVE ChainLen(_, _)
ChainLen(next, fuel) ==
    IF next = npos \/ fuel = 0 THEN 0 ELSE 1 + ChainLen(Elem(next).next, fuel - 1)

free_slots == ChainLen(free, VecSize + 1)

\* FreeList::size()
size == VecSize - free_slots

\* FreeList::at(pos): std::get<T> throws on a slot that holds a Next
At(pos) == IF IsFree(pos) THEN "bad_variant_access" ELSE Elem(pos).val

\* the record of erasures once slot pos has been filled again
Refilled(sq, pos) == SelectSeq(sq, LAMBDA x : x # pos)

NoIter == [pc |-> "none", pos |-> 0, idx |-> 0]

ListAlive == fres.kind # "abort"

\* the assertion of emplace on the head of the free chain, line 88
EmplaceAssert == free < size

\* emplace that fills the head of the free chain and leaves free pointing at it
EmplaceKeepsHead(v) ==
    /\ ListAlive /\ iter.pc = "none"
    /\ IF free # npos
       THEN /\ m_vec' = [m_vec EXCEPT ![free + 1] = Occupied(v)]
            /\ placed' = Put(placed, free, v)
            /\ erased' = Refilled(erased, free)
            /\ fres' = [op |-> "emplace", kind |-> "ok", ret |-> free]
            /\ UNCHANGED free
       ELSE /\ VecSize < MaxSlots
            /\ m_vec' = Append(m_vec, Occupied(v))
            /\ placed' = Put(placed, VecSize, v)
            /\ erased' = erased
            /\ fres' = [op |-> "emplace", kind |-> "ok", ret |-> VecSize]
            /\ UNCHANGED free
    /\ UNCHANGED <<ndebug, iter, visited>>
    /\ UNCHANGED <<storeVars, graphVars>>

\* FreeList::emplace
Emplace(v) ==
    /\ ListAlive /\ iter.pc = "none"
    /\ IF free # npos
       THEN IF ~ndebug /\ ~EmplaceAssert
            THEN /\ fres' = [op |-> "emplace", kind |-> "abort", ret |-> npos]
                 /\ UNCHANGED <<m_vec, free, placed, erased>>
            ELSE /\ free' = Elem(free).next
                 /\ m_vec' = [m_vec EXCEPT ![free + 1] = Occupied(v)]
                 /\ placed' = Put(placed, free, v)
                 /\ erased' = Refilled(erased, free)
                 /\ fres' = [op |-> "emplace", kind |-> "ok", ret |-> free]
       ELSE /\ VecSize < MaxSlots
            /\ m_vec' = Append(m_vec, Occupied(v))
            /\ placed' = Put(placed, VecSize, v)
            /\ erased' = erased
            /\ fres' = [op |-> "emplace", kind |-> "ok", ret |-> VecSize]
            /\ UNCHANGED free
    /\ UNCHANGED <<ndebug, iter, visited>>
    /\ UNCHANGED <<storeVars, graphVars>>

\* erase that closes the gap, as erasing from a plain vector does
EraseCompacting(pos) ==
    /\ ListAlive /\ iter.pc = "none"
    /\ pos \in 0..(VecSize - 1)
    /\ ~IsFree(pos)
    /\ m_vec' = [i \in 1..(VecSize - 1) |-> IF i < pos + 1 THEN m_vec[i] ELSE m_vec[i + 1]]
    /\ placed' = Drop(placed, pos)
    /\ erased' = Append(erased, pos)
    /\ fres' = [op |-> "erase", kind |-> "ok", ret |-> pos]
    /\ UNCHANGED <<ndebug, free, iter, visited>>
    /\ UNCHANGED <<storeVars, graphVars>>

\* erase that links the slot into the chain whatever it holds
EraseUnchecked(pos) ==
    /\ ListAlive /\ iter.pc = "none"
    /\ pos \in 0..(VecSize - 1)
    /\ m_vec' = [m_vec EXCEPT ![pos + 1] = FreeSlot(free)]
    /\ free' = pos
    /\ placed' = Drop(placed, pos)
    /\ erased' = Append(erased, pos)
    /\ fres' = [op |-> "erase", kind |-> "ok", ret |-> pos]
    /\ UNCHANGED <<ndebug, iter, visited>>
    /\ UNCHANGED <<storeVars, graphVars>>

\* FreeList::erase: the visitor throws on a Next before free is assigned
Erase(pos) ==
    /\ ListAlive /\ iter.pc = "none"
    /\ pos \in 0..(VecSize - 1)
    /\ IF IsFree(pos)
       THEN /\ fres' = [op |-> "erase", kind |-> "runtime_error", ret |-> pos]
            /\ UNCHANGED <<m_vec, free, placed, erased>>
       ELSE /\ m_vec' = [m_vec EXCEPT ![pos + 1] = FreeSlot(free)]
            /\ free' = pos
            /\ placed' = Drop(placed, pos)
            /\ erased' = Append(erased, pos)
            /\ fres' = [op |-> "erase", kind |-> "ok", ret |-> pos]
    /\ UNCHANGED <<ndebug, iter, visited>>
    /\ UNCHANGED <<storeVars, graphVars>>

\* the while loop of ConstIterator::operator++: it steps over Next slots only
RECURSIVE SkipFree(_, _)
SkipFree(current, idx) ==
    IF current # VecSize /\ IsFree(current)
    THEN SkipFree(current + 1, idx + 1)
    ELSE [pos |-> current, idx |-> idx]

\* ConstIterator::operator++
Increment(it) ==
    LET nxt == SkipFree(it.pos, it.idx)
    IN  [pc |-> "test", pos |-> nxt.pos, idx |-> nxt.idx]

\* FreeList::begin() const and the start of a loop  for(it = begin(); it != end(); ++it)
IterBegin ==
    /\ ListAlive /\ iter.pc = "none"
    /\ iter' = [pc |-> "test", pos |-> 0, idx |-> 0]
    /\ visited' = <<>>
    /\ fres' = [op |-> "iterate", kind |-> "running", ret |-> npos]
    /\ UNCHANGED <<ndebug, m_vec, free, placed, erased>>
    /\ UNCHANGED <<storeVars, graphVars>>

\* operator== is defaulted: m_iter, m_end and m_idx are all compared,
\* and end() is built with m_idx = 0
AtEnd(it) == it.pos = VecSize /\ it.idx = 0

\* it != end() holds: the body dereferences the iterator and reads index()
IterBody ==
    /\ iter.pc = "test" /\ ~AtEnd(iter)
    /\ Len(visited) < MaxVisits
    /\ IF iter.pos = VecSize
       THEN \* operator* one past the last slot: undefined behaviour
            \E outcome \in {"crash", "garbage"} :
               IF outcome = "crash"
               THEN /\ iter' = NoIter
                    /\ fres' = [op |-> "iterate", kind |-> "crash", ret |-> npos]
                    /\ UNCHANGED visited
               ELSE /\ iter' = [iter EXCEPT !.pc = "inc"]
                    /\ visited' = Append(visited, iter.idx)
                    /\ UNCHANGED fres
       ELSE IF IsFree(iter.pos)
            THEN /\ iter' = NoIter
                 /\ fres' = [op |-> "iterate", kind |-> "bad_variant_access", ret |-> npos]
                 /\ UNCHANGED visited
            ELSE /\ iter' = [iter EXCEPT !.pc = "inc"]
                 /\ visited' = Append(visited, iter.idx)
                 /\ UNCHANGED fres
    /\ UNCHANGED <<ndebug, m_vec, free, placed, erased>>
    /\ UNCHANGED <<storeVars, graphVars>>

\* ++it at the end of the body
IterInc ==
    /\ iter.pc = "inc"
    /\ iter' = IF iter.pos = VecSize THEN [iter EXCEPT !.pc = "test"] ELSE Increment(iter)
    /\ UNCHANGED <<ndebug, m_vec, free, placed, erased, fres, visited>>
    /\ UNCHANGED <<storeVars, graphVars>>

\* it != end() fails: the loop is left
IterEnd ==
    /\ iter.pc = "test" /\ AtEnd(iter)
    /\ iter' = NoIter
    /\ fres' = [op |-> "iterate", kind |-> "done", ret |-> npos]
    /\ UNCHANGED <<ndebug, m_vec, free, placed, erased, visited>>
    /\ UNCHANGED <<storeVars, graphVars>>

\* the caller leaves the loop early (break, return)
IterBreak ==
    /\ iter.pc # "none"
    /\ iter' = NoIter
    /\ fres' = [op |-> "iterate", kind |-> "break", ret |-> npos]
    /\ UNCHANGED <<ndebug, m_vec, free, placed, erased, visited>>
    /\ UNCHANGED <<storeVars, graphVars>>

InitList ==
    /\ m_vec = <<>>
    /\ free = npos
    /\ placed = EmptyMap
    /\ erased = <<>>
    /\ fres = [op |-> "init", kind |-> "ok", ret |-> npos]
    /\ iter = NoIter
    /\ visited = <<>>

--------------------------------------------------------------------------
(* SingleVec<T> and StackVec<T, MAX_STACK>                                *)

SvRes(op, before) == [op |-> op, before |-> before]

\* SingleVec::push_back
SingleVec_push_back(v) ==
    /\ Len(m_elems) < MaxElems
    /\ m_elems' = Append(m_elems, v)
    /\ svres' = SvRes("push_back", Len(m_elems))
    /\ UNCHANGED <<m_len, m_cap, kres>>
    /\ UNCHANGED <<IDX, typeIds, m_res, objs, files, fileReads, fileChanges, loads, sres, pathVars>>
    /\ UNCHANGED <<listVars, graphVars>>

\* pop_back without the test of size()
SingleVec_pop_back_unguarded ==
    /\ Len(m_elems) > 0
    /\ m_elems' = SubSeq(m_elems, 1, Len(m_elems) - 1)
    /\ svres' = SvRes("pop_back", Len(m_elems))
    /\ UNCHANGED <<m_len, m_cap, kres>>
    /\ UNCHANGED <<IDX, typeIds, m_res, objs, files, fileReads, fileChanges, loads, sres, pathVars>>
    /\ UNCHANGED <<listVars, graphVars>>

\* SingleVec::pop_back
SingleVec_pop_back ==
    /\ m_elems' = IF Len(m_elems) > 1 THEN SubSeq(m_elems, 1, Len(m_elems) - 1) ELSE m_elems
    /\ svres' = SvRes("pop_back", Len(m_elems))
    /\ UNCHANGED <<m_len, m_cap, kres>>
    /\ UNCHANGED <<IDX, typeIds, m_res, objs, files, fileReads, fileChanges, loads, sres, pathVars>>
    /\ UNCHANGED <<listVars, graphVars>>

KRes(op, kind) == [op |-> op, kind |-> kind]

StackAlive == kres.kind # "hang"

\* StackVec::emplace_back: past MAX_STACK elements the heap block grows when
\* m_len reaches m_cap
StackVec_emplace_back ==
    /\ StackAlive
    /\ m_len < MaxStackLen
    /\ m_len' = m_len + 1
    /\ m_cap' = IF m_len >= MAX_STACK /\ m_len >= m_cap
                THEN (IF m_cap = 0 THEN MAX_STACK ELSE m_cap * 2)
                ELSE m_cap
    /\ kres' = KRes("emplace_back", "ok")
    /\ UNCHANGED <<m_elems, svres>>
    /\ UNCHANGED <<IDX, typeIds, m_res, objs, files, fileReads, fileChanges, loads, sres, pathVars>>
    /\ UNCHANGED <<listVars, graphVars>>

\* StackVec::pop_back on a vector that holds an element
StackVec_pop_back ==
    /\ StackAlive
    /\ m_len > 0
    /\ m_len' = m_len - 1
    /\ kres' = KRes("pop_back", "ok")
    /\ UNCHANGED <<m_elems, svres, m_cap>>
    /\ UNCHANGED <<IDX, typeIds, m_res, objs, files, fileReads, fileChanges, loads, sres, pathVars>>
    /\ UNCHANGED <<listVars, graphVars>>

\* the condition of the first loop of clear(), line 143
StackLoopCond(i) == i < MAX_STACK /\ i < m_len

\* the condition of the second loop, line 147: m_len - MAX_STACK is computed
\* in std::size_t, so below MAX_STACK elements it wraps to a value above
\* every std::uint32_t and the comparison is true
HeapLoopCond(i) == IF m_len >= MAX_STACK THEN i < m_len - MAX_STACK ELSE TRUE

\* a loop of clear() whose condition holds at i = 0 never ends as written,
\* its body leaving i alone; a loop without side effects that never ends is
\* undefined, and a build may drop it
ClearOutcomes ==
    IF StackLoopCond(0) \/ HeapLoopCond(0) THEN {"hang", "elided"} ELSE {"ok"}

\* StackVec::clear, and with it StackVec::~StackVec
StackVec_clear ==
    /\ StackAlive
    /\ \E out \in ClearOutcomes :
          /\ kres' = KRes("clear", out)
          /\ m_len' = IF out = "hang" THEN m_len ELSE 0
    /\ UNCHANGED <<m_elems, svres, m_cap>>
    /\ UNCHANGED <<IDX, typeIds, m_res, objs, files, fileReads, fileChanges, loads, sres, pathVars>>
    /\ UNCHANGED <<listVars, graphVars>>

\* no SingleVec and no StackVec is in use
InitVecIdle ==
    /\ m_elems = <<5>>
    /\ svres = SvRes("construct", 0)
    /\ m_len = 0
    /\ m_cap = 0
    /\ kres = KRes("construct", "ok")

\* SingleVec(first) and StackVec()
InitVec ==
    /\ m_elems \in {<<v>> : v \in Values}
    /\ svres = SvRes("construct", 0)
    /\ m_len = 0
    /\ m_cap = 0
    /\ kres = KRes("construct", "ok")

--------------------------------------------------------------------------
(* BoardGraph, ComponentNode, WireEdge                                    *)

NodeIds == {"n1", "n2"}

EdgeIds == {"e1"}

\* WireEdge::Side
LEFT == 0

RIGHT == 1

Sides == {LEFT, RIGHT}

\* Point, with Point::operator+
PAdd(a, b) == <<a[1] + b[1], a[2] + b[2]>>

Origin == <<0, 0>>

\* the component types the ComponentLoader finds on disk; the ports are in
\* m_ports in the order ComponentLoader::load emplaced them (slots 0, 1, ...)
CompTypes ==
    [T1 |-> [ports |-> <<[id |-> "pa", pos |-> <<1, 0>>],
                         [id |-> "pb", pos |-> <<0, 1>>]>>]]

\* the connector types the ConnectorLoader finds on disk
ConnTypes == {"k1"}

\* an empty WeakRef<ComponentNode>, a null Ref<Component>, a null Ref<Connector>
NoNode == ""

NoType == ""

\* ConnectionPortIdx values: the slots of T1's ports and one that is no slot
PortIdxs == 0..2

\* Optional<ConnectionPortIdx>
SomeIdx(i) == [kind |-> "some", idx |-> i]

NoIdx == [kind |-> "none", idx |-> 0]

HangIdx == [kind |-> "hang", idx |-> 0]

\* Component::get_port_idx: std::find_if over m_ports with the ConstIterator.
\* Every slot of m_ports is occupied, so operator++ never leaves slot 0: the
\* unrolled find_if tests slot 0 once per element and returns end(), the plain
\* loop tests slot 0 for ever.
get_port_idx(ty, name) ==
    LET ports == CompTypes[ty].ports
    IN  IF ports = <<>> THEN NoIdx
        ELSE IF ports[1].id = name THEN SomeIdx(0)
        ELSE IF unrolledFind THEN NoIdx ELSE HangIdx

\* Component::get_port(ConnectionPortIdx) on a slot of the type, then pos()
PortPos(ty, idx) == CompTypes[ty].ports[idx + 1].pos

\* the union of m_port and m_pos in a Connection: the member written last
PortSlot(i) == [tag |-> "port", val |-> i]

PosSlot(pt) == [tag |-> "pos", val |-> pt]

\* WireEdge::Connection::Connection(): m_component{}, m_port{}
DefaultConn == [comp |-> NoNode, slot |-> PortSlot(0), connector |-> NoType]

\* ComponentNode::ComponentNode()
DefaultNode == [ty |-> NoType, pos |-> Origin, edges |-> EmptyMap]

\* the null Ref<WireEdge> that load_edge first stores under the id
NullEdge == [null |-> TRUE, conns |-> <<DefaultConn, DefaultConn>>]

\* WireEdge::Connection::is_floating()
is_floating(c) == c.comp = NoNode

\* WireEdge::Connection::port(): the port index it resolves, or nothing
ConnPort(c) == IF ~is_floating(c) THEN SomeIdx(c.slot.val) ELSE NoIdx

\* ComponentNode::port(idx)
NodePort(n, idx) == IF idx \in DOMAIN n.edges THEN n.edges[idx] ELSE [edge |-> "", side |-> LEFT]

(* ---- the document handed to from_json ---- *)

AttachedJson(n, p) == [shape |-> "node_port", connector |-> "k1", node |-> n, port |-> p, pos |-> Origin]

FloatingJson(pt) == [shape |-> "pos", connector |-> "k1", node |-> "", port |-> "", pos |-> pt]

\* an endpoint with a connector and nothing else
BareJson == [shape |-> "bare", connector |-> "k1", node |-> "", port |-> "", pos |-> Origin]

EndpointJsons ==
    {AttachedJson("n1", "pa"), AttachedJson("n1", "pb"), AttachedJson("n1", "px"),
     AttachedJson("n2", "pa"), AttachedJson("nx", "pa"),
     FloatingJson(<<3, 3>>), BareJson}

EdgeJsons ==
    {[conns |-> <<>>]}
    \cup {[conns |-> <<a>>] : a \in EndpointJsons}
    \cup {[conns |-> <<a, b>>] : a \in EndpointJsons, b \in EndpointJsons}
    \cup {[conns |-> <<FloatingJson(<<3, 3>>), FloatingJson(<<3, 3>>), FloatingJson(<<3, 3>>)>>]}

ConnJson(p, e, sd) == [port |-> p, edge |-> e, side |-> sd]

\* the entries of a node in the documents; one entry of n2 has no "conns"
NodeJsons(id) ==
    IF id = "n1"
    THEN {[type |-> "T1", pos |-> <<2, 0>>, conns |-> cs] :
             cs \in {<<>>, <<ConnJson("pa", "e1", LEFT)>>, <<ConnJson("pb", "e1", RIGHT)>>,
                     <<ConnJson("px", "e1", LEFT)>>}}
         \cup {[type |-> "missing", pos |-> <<2, 0>>, conns |-> <<>>]}
    ELSE {[type |-> "T1", pos |-> <<0, 2>>, conns |-> cs] :
             cs \in {<<>>, <<ConnJson("pa", "e1", RIGHT)>>}}
         \cup {[type |-> "T1", pos |-> <<0, 2>>]}

\* partial maps from the ids to their entries
NodeSections ==
    UNION {[ids -> UNION {NodeJsons(id) : id \in ids}] : ids \in SUBSET NodeIds}

Docs ==
    {[nodes |-> ns, edges |-> es] :
        ns \in {f \in NodeSections : \A id \in DOMAIN f : f[id] \in NodeJsons(id)},
        es \in UNION {[ids -> EdgeJsons] : ids \in SUBSET EdgeIds}}

\* the documents loaded into graphs that are then edited
EditDocs ==
    LET node(id, cs) == [type |-> "T1", pos |-> IF id = "n1" THEN <<2, 0>> ELSE <<0, 2>>, conns |-> cs]
        both == [id \in NodeIds |-> node(id, <<>>)]
        edge(a, b) == [id \in EdgeIds |-> [conns |-> <<a, b>>]]
    IN  {[nodes |-> both, edges |-> edge(AttachedJson("n1", "pa"), FloatingJson(<<3, 3>>))],
         [nodes |-> both, edges |-> edge(AttachedJson("n1", "pa"), AttachedJson("n2", "pa"))],
         [nodes |-> [id \in {"n1"} |-> node(id, <<>>)],
          edges |-> edge(FloatingJson(<<3, 3>>), FloatingJson(<<3, 3>>))],
         [nodes |-> [id \in {"n2"} |-> node(id, <<ConnJson("pa", "e1", RIGHT)>>)],
          edges |-> EmptyMap]}

(* ---- loading ---- *)

\* the error a failed load throws: where it was wrapped, the id the message
\* names and the cause it quotes from the inner exception
Err(at, id, cause) == [at |-> at, id |-> id, cause |-> cause]

NoErr == Err("", "", "")

Outcome(k, ns, es) == [kind |-> k, nodes |-> ns, edges |-> es, err |-> NoErr]

\* the catch blocks of load_node and load_edge: rethrow, naming the id
Failure(at, id, cause, ns, es) ==
    [kind |-> "error", nodes |-> ns, edges |-> es, err |-> Err(at, id, cause)]

\* the for loop of load_node over json_val.at("conns"), from entry i on
RECURSIVE LoadConns(_, _, _, _, _)
LoadConns(edges, ty, conns, i, acc) ==
    IF i > Len(conns) THEN [kind |-> "ok", map |-> acc, cause |-> ""]
    ELSE LET port == get_port_idx(ty, conns[i].port)
         IN  IF port.kind = "hang" THEN [kind |-> "hang", map |-> acc, cause |-> ""]
             ELSE IF port.kind = "none" THEN [kind |-> "error", map |-> acc, cause |-> "port"]
             ELSE IF conns[i].edge \notin DOMAIN edges
             THEN [kind |-> "error", map |-> acc, cause |-> "edge"]
             ELSE LoadConns(edges, ty, conns, i + 1,
                            Put(acc, port.idx, [edge |-> conns[i].edge, side |-> conns[i].side]))

\* load_node that leaves its placeholder behind when it fails
load_node_no_rollback(g, id, doc) ==
    IF id \in DOMAIN g.nodes THEN Outcome("ok", g.nodes, g.edges)
    ELSE LET json_val == doc.nodes[id]
             placeholder == Put(g.nodes, id, DefaultNode)
         IN  IF json_val.type \notin DOMAIN CompTypes
             THEN Failure("node", id, "type", placeholder, g.edges)
             ELSE IF "conns" \notin DOMAIN json_val
             THEN Failure("node", id, "field", placeholder, g.edges)
             ELSE LET r == LoadConns(g.edges, json_val.type, json_val.conns, 1, EmptyMap)
                  IN  CASE r.kind = "hang" -> Outcome("hang", placeholder, g.edges)
                        [] r.kind = "error" -> Failure("node", id, r.cause, placeholder, g.edges)
                        [] r.kind = "ok" ->
                             Outcome("ok", Put(g.nodes, id, [ty |-> json_val.type,
                                                             pos |-> json_val.pos,
                                                             edges |-> r.map]), g.edges)

\* load_node without the test for an existing node: the entry is built again
\* from the document and replaces the one stored
load_node_replacing(g, id, doc) ==
    load_node_no_rollback([g EXCEPT !.nodes = Drop(@, id)], id, doc)

\* BoardGraph::load_node
load_node(g, id, doc) ==
    IF id \in DOMAIN g.nodes THEN Outcome("ok", g.nodes, g.edges)
    ELSE LET json_val == doc.nodes[id]
             placeholder == Put(g.nodes, id, DefaultNode)
         IN  IF json_val.type \notin DOMAIN CompTypes
             THEN Failure("node", id, "type", Drop(placeholder, id), g.edges)
             ELSE IF "conns" \notin DOMAIN json_val
             THEN Failure("node", id, "field", Drop(placeholder, id), g.edges)
             ELSE LET r == LoadConns(g.edges, json_val.type, json_val.conns, 1, EmptyMap)
                  IN  CASE r.kind = "hang" -> Outcome("hang", placeholder, g.edges)
                        [] r.kind = "error" ->
                             Failure("node", id, r.cause, Drop(placeholder, id), g.edges)
                        [] r.kind = "ok" ->
                             Outcome("ok", Put(g.nodes, id, [ty |-> json_val.type,
                                                             pos |-> json_val.pos,
                                                             edges |-> r.map]), g.edges)

\* one pass of the for loop of load_edge: endpoint i of the new edge
LoadEndpoint(nodes, cj) ==
    IF cj.connector \notin ConnTypes
    THEN [kind |-> "error", conn |-> DefaultConn, cause |-> "connector"]
    ELSE IF cj.shape = "node_port"
    THEN IF cj.node \notin DOMAIN nodes
         THEN [kind |-> "error", conn |-> DefaultConn, cause |-> "node"]
         ELSE LET port == get_port_idx(nodes[cj.node].ty, cj.port)
              IN  IF port.kind = "some"
                  THEN [kind |-> "ok", conn |-> [comp |-> cj.node, slot |-> PortSlot(port.idx),
                                                  connector |-> cj.connector], cause |-> ""]
                  ELSE [kind |-> IF port.kind = "hang" THEN "hang" ELSE "error",
                        conn |-> DefaultConn,
                        cause |-> IF port.kind = "hang" THEN "" ELSE "port"]
    ELSE IF cj.shape = "pos"
    THEN [kind |-> "ok", conn |-> [comp |-> NoNode, slot |-> PosSlot(cj.pos),
                                    connector |-> cj.connector], cause |-> ""]
    ELSE [kind |-> "error", conn |-> DefaultConn, cause |-> "shape"]

RECURSIVE LoadEndpoints(_, _, _, _)
LoadEndpoints(nodes, conns, i, acc) ==
    IF i > Len(conns) THEN [kind |-> "ok", conns |-> acc, cause |-> ""]
    ELSE IF i - 1 >= 2 THEN [kind |-> "error", conns |-> acc, cause |-> "count"]
    ELSE LET r == LoadEndpoint(nodes, conns[i])
         IN  IF r.kind # "ok" THEN [kind |-> r.kind, conns |-> acc, cause |-> r.cause]
             ELSE LoadEndpoints(nodes, conns, i + 1, [acc EXCEPT ![i] = r.conn])

\* BoardGraph::load_edge
load_edge(g, id, doc) ==
    IF id \in DOMAIN g.edges THEN Outcome("ok", g.nodes, g.edges)
    ELSE LET placeholder == Put(g.edges, id, NullEdge)
             r == LoadEndpoints(g.nodes, doc.edges[id].conns, 1, <<DefaultConn, DefaultConn>>)
         IN  CASE r.kind = "hang" -> Outcome("hang", g.nodes, placeholder)
               [] r.kind = "error" ->
                    Failure("edge", id, r.cause, g.nodes, Drop(placeholder, id))
               [] r.kind = "ok" ->
                    Outcome("ok", g.nodes, Put(g.edges, id, [null |-> FALSE, conns |-> r.conns]))

\* the keys of a json object in the order items() gives them (std::map order)
NodeOrder == <<"n1", "n2">>

EdgeOrder == <<"e1">>

RECURSIVE LoadNodes(_, _, _)
LoadNodes(g, i, doc) ==
    IF i > Len(NodeOrder) THEN Outcome("ok", g.nodes, g.edges)
    ELSE IF NodeOrder[i] \notin DOMAIN doc.nodes THEN LoadNodes(g, i + 1, doc)
    ELSE LET r == load_node(g, NodeOrder[i], doc)
         IN  IF r.kind # "ok" THEN r ELSE LoadNodes(r, i + 1, doc)

RECURSIVE LoadEdges(_, _, _)
LoadEdges(g, i, doc) ==
    IF i > Len(EdgeOrder) THEN Outcome("ok", g.nodes, g.edges)
    ELSE IF EdgeOrder[i] \notin DOMAIN doc.edges THEN LoadEdges(g, i + 1, doc)
    ELSE LET r == load_edge(g, EdgeOrder[i], doc)
         IN  IF r.kind # "ok" THEN r ELSE LoadEdges(r, i + 1, doc)

\* BoardGraph::from_json: every node, then every edge
from_json(g, doc) ==
    LET r == LoadNodes(g, 1, doc)
    IN  IF r.kind # "ok" THEN r ELSE LoadEdges(r, 1, doc)

\* history: the node ids and the edge ids a document lists
Listed(doc) == [nodes |-> DOMAIN doc.nodes, edges |-> DOMAIN doc.edges]

NoneListed == [nodes |-> {}, edges |-> {}]

\* the arguments of the connnect_port call a result belongs to; these when the
\* call was another one
NoArgs == [n |-> "", port |-> 0, e |-> "", sd |-> 0, force |-> FALSE]

\* a graph operation hung in a loop or crashed: nothing runs after it
GraphAlive == gres.kind \notin {"hang", "crash"} /\ life = "alive"

FromJson(doc) ==
    /\ GraphAlive
    /\ loadCalls < MaxLoads
    /\ loadCalls' = loadCalls + 1
    /\ LET r == from_json([nodes |-> m_nodes, edges |-> m_edges], doc)
       IN  /\ m_nodes' = r.nodes
           /\ m_edges' = r.edges
           /\ gres' = [op |-> "from_json", kind |-> r.kind, stored |-> FALSE, err |-> r.err,
                       listed |-> Listed(doc), args |-> NoArgs]
    /\ reads' = {}
    /\ UNCHANGED <<unrolledFind, connCalls>>
    /\ UNCHANGED <<storeVars, listVars, boardVars>>

(* ---- saving ---- *)

\* the number of slots of m_ports of a component type
NumPorts(ty) == Len(CompTypes[ty].ports)

\* the keys of a node's port map in the order to_json meets them
PortKeys(edges) ==
    SelectSeq([i \in 1..Cardinality(PortIdxs) |-> i - 1], LAMBDA q : q \in DOMAIN edges)

\* to_json can write the node: it has a type, and get_port(port) is inside
\* m_ports for every key of its port map
NodeWritable(node) ==
    /\ node.ty # NoType
    /\ \A q \in DOMAIN node.edges : q < NumPorts(node.ty)

\* to_json can write the edge: it is no null Ref and connector() of both
\* endpoints is no null Ref
EdgeWritable(edge) ==
    /\ ~edge.null
    /\ \A i \in 1..2 : edge.conns[i].connector # NoType

\* the entry to_json writes for a node, lines 270-293
NodeToJson(node) ==
    LET keys == PortKeys(node.edges)
    IN  [type |-> node.ty, pos |-> node.pos,
         conns |-> [i \in 1..Len(keys) |->
                       ConnJson(CompTypes[node.ty].ports[keys[i] + 1].id,
                                node.edges[keys[i]].edge, node.edges[keys[i]].side)]]

\* the entry to_json writes for an endpoint, lines 299-307
EndpointToJson(g, c) ==
    IF is_floating(c)
    THEN [shape |-> "pos", connector |-> c.connector, node |-> "", port |-> "", pos |-> c.slot.val]
    ELSE [shape |-> "node_port", connector |-> c.connector, node |-> c.comp,
          port |-> CompTypes[g.nodes[c.comp].ty].ports[c.slot.val + 1].id, pos |-> Origin]

\* BoardGraph::to_json: the document, or a crash on a null Ref or on a read
\* outside m_ports
to_json(g) ==
    IF /\ \A n \in DOMAIN g.nodes : NodeWritable(g.nodes[n])
       /\ \A e \in DOMAIN g.edges : EdgeWritable(g.edges[e])
    THEN [kind |-> "ok",
          doc |-> [nodes |-> [n \in DOMAIN g.nodes |-> NodeToJson(g.nodes[n])],
                   edges |-> [e \in DOMAIN g.edges |->
                                 [conns |-> [i \in 1..2 |-> EndpointToJson(g, g.edges[e].conns[i])]]]]]
    ELSE [kind |-> "crash", doc |-> [nodes |-> EmptyMap, edges |-> EmptyMap]]

\* from_json(to_json(g)) on an empty graph
Reloaded(g) ==
    LET saved == to_json(g)
    IN  IF saved.kind = "ok"
        THEN from_json([nodes |-> EmptyMap, edges |-> EmptyMap], saved.doc)
        ELSE Outcome("crash", EmptyMap, EmptyMap)

(* ---- editing ---- *)

\* the position detach() stores: only the offset of the port
DetachedPosOffsetOnly(node, idx) == PortPos(node.ty, idx)

\* the position detach() stores, lines 41-46
DetachedPos(node, idx) == PAdd(node.pos, PortPos(node.ty, idx))

\* detach() without the is_floating() test: a floating endpoint has its
\* position overwritten
DetachConnUnguarded(e, sd, key) ==
    LET c == m_edges[e].conns[sd + 1]
    IN  IF is_floating(c)
        THEN [nodes |-> m_nodes, edges |-> [m_edges EXCEPT ![e].conns[sd + 1].slot = PosSlot(Origin)]]
        ELSE [nodes |-> [m_nodes EXCEPT ![c.comp].edges = Drop(@, key)],
              edges |-> [m_edges EXCEPT ![e].conns[sd + 1] =
                            [c EXCEPT !.slot = PosSlot(DetachedPos(m_nodes[c.comp], c.slot.val)),
                                      !.comp = NoNode]]]

\* WireEdge::Connection::detach() on endpoint sd of edge e. After m_pos is
\* written the union no longer holds the port index, so the key that
\* remove_port(this->m_port) erases is whatever those bytes read as: key.
DetachConn(e, sd, key) ==
    LET c == m_edges[e].conns[sd + 1]
        node == m_nodes[c.comp]
        detached == [c EXCEPT !.slot = PosSlot(DetachedPos(node, c.slot.val)), !.comp = NoNode]
    IN  IF is_floating(c)
        THEN [nodes |-> m_nodes, edges |-> m_edges]
        ELSE [nodes |-> [m_nodes EXCEPT ![c.comp].edges = Drop(@, key)],
              edges |-> [m_edges EXCEPT ![e].conns[sd + 1] = detached]]

\* the keys remove_port can be handed by detach() on endpoint sd of edge e;
\* a floating endpoint hands it none, the one listed is never used
GarbageKeys(e, sd) ==
    IF is_floating(m_edges[e].conns[sd + 1]) THEN {0} ELSE PortIdxs

\* the reads of the union that detach() makes on endpoint sd of edge e:
\* get_port(this->m_port) while the union holds the port index, then
\* remove_port(this->m_port) after m_pos has been assigned
DetachReads(e, sd) ==
    IF is_floating(m_edges[e].conns[sd + 1]) THEN {}
    ELSE {[as |-> "port", holding |-> "port"], [as |-> "port", holding |-> "pos"]}

Detach(e, sd) ==
    /\ GraphAlive
    /\ e \in DOMAIN m_edges
    /\ \E key \in GarbageKeys(e, sd) :
          LET r == DetachConn(e, sd, key)
          IN  /\ m_nodes' = r.nodes
              /\ m_edges' = r.edges
    /\ gres' = [op |-> "detach",
                kind |-> IF is_floating(m_edges[e].conns[sd + 1]) THEN "noop" ELSE "detached",
                stored |-> FALSE, err |-> NoErr, listed |-> NoneListed, args |-> NoArgs]
    /\ reads' = DetachReads(e, sd)
    /\ UNCHANGED <<unrolledFind, loadCalls, connCalls>>
    /\ UNCHANGED <<storeVars, listVars, boardVars>>

\* BoardGraph::component: m_nodes.emplace keeps a node already stored under id
Component(ty, id, pos) ==
    /\ GraphAlive
    /\ m_nodes' = IF id \in DOMAIN m_nodes THEN m_nodes
                  ELSE Put(m_nodes, id, [ty |-> ty, pos |-> pos, edges |-> EmptyMap])
    /\ gres' = [op |-> "component", kind |-> "ok", stored |-> id \notin DOMAIN m_nodes,
                err |-> NoErr, listed |-> NoneListed, args |-> NoArgs]
    /\ reads' = {}
    /\ UNCHANGED <<unrolledFind, m_edges, loadCalls, connCalls>>
    /\ UNCHANGED <<storeVars, listVars, boardVars>>

\* what a read outside m_ports, or a write through an erased map entry, does
\* in a build without assertions
UBOutcomes == {"crash", "throw", "proceed"}

\* connnect_port that replaces the occupant of a port whatever force says
connnect_port_replacing(n, port, e, sd, force, key, ub) ==
    LET node == m_nodes[n]
    IN  IF port >= NumPorts(node.ty)
        THEN Outcome("crash", m_nodes, m_edges)
        ELSE Outcome("ok", [m_nodes EXCEPT ![n].edges = Put(@, port, [edge |-> e, side |-> sd])],
                     m_edges)

\* ComponentNode::connnect_port on node n. get_port(port) is m_ports.at(port):
\* outside the slots it fails the assertion, and without assertions it reads
\* past m_vec (ub). Its result always has a value. With force and an occupied
\* port the old endpoint is detached (erasing key from its node) before the
\* entry found earlier is written; if that entry is the one erased, the write
\* goes to freed memory (ub) and the map keeps no entry for port.
connnect_port(n, port, e, sd, force, key, ub) ==
    LET node == m_nodes[n]
        entry == [edge |-> e, side |-> sd]
    IN  IF port >= NumPorts(node.ty) /\ (~ndebug \/ ub = "crash")
        THEN Outcome("crash", m_nodes, m_edges)
        ELSE IF port >= NumPorts(node.ty) /\ ub = "throw"
        THEN Outcome("error", m_nodes, m_edges)
        ELSE IF port \notin DOMAIN node.edges
        THEN Outcome("ok", [m_nodes EXCEPT ![n].edges = Put(@, port, entry)], m_edges)
        ELSE IF ~force
        THEN Outcome("empty", m_nodes, m_edges)
        ELSE LET old == node.edges[port]
                 d == DetachConn(old.edge, old.side, key)
             IN  IF port \notin DOMAIN d.nodes[n].edges
                 THEN Outcome(IF ub = "crash" THEN "crash" ELSE "ok", d.nodes, d.edges)
                 ELSE Outcome("ok", [d.nodes EXCEPT ![n].edges[port] = entry], d.edges)

\* the choices a connnect_port call meets: a key only when it detaches the old
\* endpoint, an outcome of undefined behaviour only when port is no slot of the
\* type or the old endpoint is attached
ConnectKeys(n, port, force) ==
    IF force /\ port \in DOMAIN m_nodes[n].edges
    THEN GarbageKeys(m_nodes[n].edges[port].edge, m_nodes[n].edges[port].side)
    ELSE {0}

ConnectUB(n, port, force) ==
    IF port >= NumPorts(m_nodes[n].ty) \/ (force /\ port \in DOMAIN m_nodes[n].edges)
    THEN UBOutcomes
    ELSE {"proceed"}

\* the reads of the union in a connnect_port call: those of the detach() of
\* the old endpoint, when the call gets that far
ConnectReads(n, port, force, ub) ==
    IF /\ port < NumPorts(m_nodes[n].ty) \/ (ndebug /\ ub = "proceed")
       /\ force
       /\ port \in DOMAIN m_nodes[n].edges
    THEN DetachReads(m_nodes[n].edges[port].edge, m_nodes[n].edges[port].side)
    ELSE {}

ConnectPort(n, port, e, sd, force) ==
    /\ GraphAlive
    /\ n \in DOMAIN m_nodes
    /\ e \in DOMAIN m_edges
    /\ connCalls < MaxConnects
    /\ connCalls' = connCalls + 1
    /\ \E key \in ConnectKeys(n, port, force), ub \in ConnectUB(n, port, force) :
          LET r == connnect_port(n, port, e, sd, force, key, ub)
          IN  /\ m_nodes' = r.nodes
              /\ m_edges' = r.edges
              /\ gres' = [op |-> "connnect_port", kind |-> r.kind, stored |-> FALSE,
                          err |-> NoErr, listed |-> NoneListed,
                          args |-> [n |-> n, port |-> port, e |-> e, sd |-> sd, force |-> force]]
              /\ reads' = ConnectReads(n, port, force, ub)
    /\ UNCHANGED <<unrolledFind, loadCalls>>
    /\ UNCHANGED <<storeVars, listVars, boardVars>>

(* ---- construction from a path, destruction ---- *)

NoDoc == [nodes |-> EmptyMap, edges |-> EmptyMap]

\* the file at the path: absent, present with no content, or holding a document
Absent == [st |-> "absent", doc |-> NoDoc]

EmptyFile == [st |-> "empty", doc |-> NoDoc]

JsonFile(doc) == [st |-> "json", doc |-> doc]

\* the documents found in save files: those of EditDocs (the last one names an
\* edge that does not exist) and one whose edge lists no endpoint
BoardDocs ==
    EditDocs \cup {[nodes |-> EmptyMap, edges |-> [id \in EdgeIds |-> [conns |-> <<>>]]]}

\* a path with a parent directory ("saves/board.json") or without ("board.json")
PathShapes == {"nested", "bare"}

\* the else-if(create) branch, lines 227-237: create_directories throws on
\* the empty parent of a bare file name, the catch block logs it and the
\* ofstream statement is skipped
CreatedFile(shape) == IF shape = "bare" THEN Absent ELSE EmptyFile

BoardRes(op, kind) ==
    [op |-> op, kind |-> kind, stored |-> FALSE, err |-> NoErr, listed |-> NoneListed,
     args |-> NoArgs]

\* BoardGraph::BoardGraph(path, create, save). An absent or empty file cannot
\* be parsed; an exception leaves no object.
Construct(create, save) ==
    /\ life = "none"
    /\ m_save' = save
    /\ IF disk.st = "json"
       THEN LET r == from_json([nodes |-> EmptyMap, edges |-> EmptyMap], disk.doc)
            IN  /\ m_nodes' = IF r.kind = "error" THEN EmptyMap ELSE r.nodes
                /\ m_edges' = IF r.kind = "error" THEN EmptyMap ELSE r.edges
                /\ life' = IF r.kind = "error" THEN "threw" ELSE "alive"
                /\ gres' = BoardRes("construct", r.kind)
                /\ UNCHANGED disk
       ELSE IF disk.st = "empty"
       THEN /\ life' = "threw"
            /\ gres' = BoardRes("construct", "error")
            /\ UNCHANGED <<m_nodes, m_edges, disk>>
       ELSE IF create
       THEN /\ disk' = CreatedFile(m_path)
            /\ life' = "alive"
            /\ gres' = BoardRes("construct", "ok")
            /\ UNCHANGED <<m_nodes, m_edges>>
       ELSE /\ life' = "threw"
            /\ gres' = BoardRes("construct", "error")
            /\ UNCHANGED <<m_nodes, m_edges, disk>>
    /\ reads' = {}
    /\ UNCHANGED <<unrolledFind, loadCalls, connCalls, m_path>>
    /\ UNCHANGED <<storeVars, listVars>>

\* BoardGraph::~BoardGraph: the ofstream is opened, which empties the file,
\* before to_json() is evaluated
Destroy ==
    /\ GraphAlive
    /\ LET saved == to_json([nodes |-> m_nodes, edges |-> m_edges])
       IN  IF ~m_save
           THEN /\ life' = "destroyed"
                /\ gres' = BoardRes("destroy", "ok")
                /\ UNCHANGED disk
           ELSE IF saved.kind = "ok"
           THEN /\ life' = "destroyed"
                /\ gres' = BoardRes("destroy", "ok")
                /\ disk' = JsonFile(saved.doc)
           ELSE /\ life' = "crashed"
                /\ gres' = BoardRes("destroy", "crash")
                /\ disk' = EmptyFile
    /\ reads' = {}
    /\ UNCHANGED <<unrolledFind, m_nodes, m_edges, loadCalls, connCalls, m_path, m_save>>
    /\ UNCHANGED <<storeVars, listVars>>

\* a BoardGraph made by the default constructor: no path, nothing saved
InitBoardIdle ==
    /\ m_path = "none"
    /\ m_save = FALSE
    /\ disk = Absent
    /\ life = "alive"

\* before BoardGraph(path, create, save) is called
InitBoard ==
    /\ m_path \in PathShapes
    /\ m_save = FALSE
    /\ disk \in {Absent, EmptyFile} \cup {JsonFile(doc) : doc \in BoardDocs}
    /\ life = "none"

(* ---- ownership ---- *)

NodeObjs == {<<"node", n>> : n \in DOMAIN m_nodes}

EdgeObjs == {<<"edge", e>> : e \in DOMAIN m_edges}

\* ComponentNode::EdgeConnection::edge is a Ref<WireEdge>: each entry of a port
\* map holds its edge strongly
NodeToEdgeRefs ==
    UNION {{<<<<"node", n>>, <<"edge", m_nodes[n].edges[p].edge>>>> : p \in DOMAIN m_nodes[n].edges} :
              n \in DOMAIN m_nodes}

\* WireEdge::Connection::m_component is a WeakRef<ComponentNode>: an attached
\* endpoint refers to its node without owning it
EdgeToNodeRefs ==
    UNION {{<<<<"edge", e>>, <<"node", m_edges[e].conns[i].comp>>>> :
               i \in {j \in 1..2 : ~is_floating(m_edges[e].conns[j])}} :
              e \in DOMAIN m_edges}

\* the strong references were m_component a Ref<ComponentNode>
StrongRefsBothWays == NodeToEdgeRefs \cup EdgeToNodeRefs

\* the strong references among the nodes and the edges of the graph
StrongRefs == NodeToEdgeRefs

\* the objects of S that stay alive when nothing outside S refers to them:
\* shared_ptr destroys an object when its last strong reference goes
RECURSIVE Surviving(_)
Surviving(S) ==
    LET kept == {x \in S : \E r \in StrongRefs : r[2] = x /\ r[1] \in S}
    IN  IF kept = S THEN S ELSE Surviving(kept)

InitGraph ==
    /\ m_nodes = EmptyMap
    /\ m_edges = EmptyMap
    /\ loadCalls = 0
    /\ connCalls = 0
    /\ reads = {}
    /\ gres = [op |-> "init", kind |-> "ok", stored |-> FALSE, err |-> NoErr,
              listed |-> NoneListed, args |-> NoArgs]

--------------------------------------------------------------------------
(* Specifications                                                         *)

vars == <<storeVars, listVars, graphVars>>

\* each part is explored with the other part at rest; the store has no assert()
InitS == InitStore /\ InitList /\ InitVecIdle /\ InitGraph /\ InitPathIdle /\ InitBoardIdle /\ ndebug = TRUE /\ unrolledFind = TRUE

\* the store alone, started with one resource file broken
InitR == InitStoreBroken /\ InitList /\ InitVecIdle /\ InitGraph /\ InitPathIdle /\ InitBoardIdle /\ ndebug = TRUE /\ unrolledFind = TRUE

InitL == InitStore /\ InitList /\ InitVecIdle /\ InitGraph /\ InitPathIdle /\ InitBoardIdle /\ ndebug \in BOOLEAN /\ unrolledFind = TRUE

InitG == InitStore /\ InitList /\ InitVecIdle /\ InitGraph /\ InitPathIdle /\ InitBoardIdle /\ ndebug = TRUE /\ unrolledFind \in BOOLEAN

\* the editing calls are explored in the build without assertions, where a
\* failed assertion's abort is one of UBOutcomes
InitE == InitStore /\ InitList /\ InitVecIdle /\ InitGraph /\ InitPathIdle /\ InitBoardIdle /\ ndebug = TRUE /\ unrolledFind = TRUE

InitP == InitStore /\ InitList /\ InitVecIdle /\ InitGraph /\ InitPath /\ InitBoardIdle /\ ndebug = TRUE /\ unrolledFind = TRUE

NextPath == BuildPath

InitB ==
    InitStore /\ InitList /\ InitVecIdle /\ InitGraph /\ InitPathIdle /\ InitBoard
    /\ ndebug = TRUE /\ unrolledFind = TRUE

\* the life of one BoardGraph made from a path
NextBoard ==
    \/ \E create \in BOOLEAN, save \in BOOLEAN : Construct(create, save)
    \/ \E e \in EdgeIds, sd \in Sides : Detach(e, sd)
    \/ \E id \in NodeIds, pos \in {<<2, 0>>, <<0, 2>>} : Component("T1", id, pos)
    \/ Destroy

InitV ==
    InitStore /\ InitList /\ InitVec /\ InitGraph /\ InitPathIdle /\ InitBoardIdle
    /\ ndebug = TRUE /\ unrolledFind = TRUE

NextVec ==
    \/ \E v \in Values : SingleVec_push_back(v)
    \/ SingleVec_pop_back
    \/ StackVec_emplace_back
    \/ StackVec_pop_back
    \/ StackVec_clear

NextStore ==
    \/ \E T \in Types : RegisterLoader(T)
    \/ \E T \in Types, id \in ResIds : TryGet(T, id)
    \/ \E o \in DOMAIN objs : CopyHandle(o)
    \/ \E o \in DOMAIN objs : Release(o)
    \/ \E T \in Types, id \in ResIds, st \in FileStates : FileChange(T, id, st)

NextList ==
    \/ \E v \in Values : Emplace(v)
    \/ \E pos \in 0..(MaxSlots - 1) : Erase(pos)
    \/ IterBegin
    \/ IterBody
    \/ IterInc
    \/ IterEnd
    \/ IterBreak

NextGraph ==
    \/ \E doc \in Docs : FromJson(doc)
    \/ \E e \in EdgeIds, sd \in Sides : Detach(e, sd)
    \/ \E id \in NodeIds, pos \in {<<2, 0>>, <<0, 2>>} : Component("T1", id, pos)

\* editing a graph: the documents loaded are the few of EditDocs
NextEdit ==
    \/ \E doc \in EditDocs : FromJson(doc)
    \/ \E e \in EdgeIds, sd \in Sides : Detach(e, sd)
    \/ \E id \in NodeIds, pos \in {<<2, 0>>, <<0, 2>>} : Component("T1", id, pos)
    \/ \E n \in NodeIds, port \in PortIdxs, e \in EdgeIds, sd \in Sides, force \in BOOLEAN :
          ConnectPort(n, port, e, sd, force)

SpecStore == InitS /\ [][NextStore]_vars

SpecPath == InitP /\ [][NextPath]_vars

SpecBoard == InitB /\ [][NextBoard]_vars

SpecVec == InitV /\ [][NextVec]_vars

SpecRetry == InitR /\ [][NextStore]_vars

SpecList == InitL /\ [][NextList]_vars

SpecGraph == InitG /\ [][NextGraph]_vars

SpecEdit == InitE /\ [][NextEdit]_vars

--------------------------------------------------------------------------
(* Claims about the LazyResourceStore, checked under SpecStore            *)

\* the objects loaded for (T, id) of which a caller still holds a handle
HeldObjs(T, id) ==
    {o \in DOMAIN objs : objs[o].ty = T /\ objs[o].id = id /\ objs[o].held > 0}

\* an object was loaded for (T, id) and every handle to every such object is gone
Released(T, id) ==
    /\ \E o \in DOMAIN objs : objs[o].ty = T /\ objs[o].id = id
    /\ HeldObjs(T, id) = {}

Registered(T) == T \in DOMAIN typeIds /\ typeIds[T] \in DOMAIN m_res

\* C1: while a handle returned by try_get<T>(id) (or a copy of it) is held, every
\* try_get<T>(id) returns that very object, opens no file and calls no loader.
C1_CacheHit ==
    [][\A T \in Types, id \in ResIds :
          (TryGet(T, id) /\ HeldObjs(T, id) # {})
          => /\ sres'.obj \in HeldObjs(T, id)
             /\ sres'.kind = "cached"
             /\ fileReads' = fileReads
             /\ loads' = loads]_vars

\* a try_get answered from the cache while another handle was already held
C1_Witness ==
    /\ sres.kind = "cached"
    /\ objs[sres.obj].held = 2

\* C2: the cache holds its objects weakly. Once every handle to what was loaded
\* for (T, id) is released, the next try_get<T>(id) is never served from the
\* cache: it opens the file again and, the file being readable and accepted by
\* the loader, calls the loader once more and returns an object that did not
\* exist before.
C2_ReloadAfterRelease ==
    [][\A T \in Types, id \in ResIds :
          (TryGet(T, id) /\ Released(T, id))
          => /\ fileReads' = fileReads + 1
             /\ sres'.kind # "cached"
             /\ files[<<T, id>>] = "valid"
                => /\ loads' = loads + 1
                   /\ sres'.kind = "loaded"
                   /\ sres'.obj \notin DOMAIN objs
                   /\ objs'[sres'.obj] = [ty |-> T, id |-> id, held |-> 1]]_vars

\* a second object exists for a key whose first object has been released
C2_Witness ==
    /\ sres.kind = "loaded"
    /\ \E o \in DOMAIN objs :
          /\ o # sres.obj
          /\ objs[o].ty = sres.ty /\ objs[o].id = sres.id
          /\ objs[o].held = 0

\* C3: try_get<T>(id) for a type without a registered loader throws the
\* UnregisteredResourceException, opens no file and changes no cache slot.
C3_Unregistered ==
    [][\A T \in Types, id \in ResIds :
          (TryGet(T, id) /\ ~Registered(T))
          => /\ sres'.kind = "unregistered"
             /\ fileReads' = fileReads
             /\ loads' = loads
             /\ m_res' = m_res
             /\ objs' = objs]_vars

\* an unregistered type was asked for while another type's cache holds an entry
C3_Witness ==
    /\ sres.kind = "unregistered"
    /\ ~Registered(sres.ty)
    /\ \E t \in DOMAIN m_res : DOMAIN m_res[t].cache # {}

SlotsOf(res, T) == {k \in DOMAIN res : res[k].loader = T}

\* C25: a type keeps the identifier TypeId::id gave it on first use, no two
\* types have the same identifier, and the store holds one slot for a type
\* after register_loader<T>, never two, and never loses a slot.
C25_TypeIds ==
    [][/\ \A T \in DOMAIN typeIds : T \in DOMAIN typeIds' /\ typeIds'[T] = typeIds[T]
       /\ \A T \in DOMAIN typeIds', U \in DOMAIN typeIds' :
             T # U => typeIds'[T] # typeIds'[U]
       /\ \A T \in Types :
             /\ Cardinality(SlotsOf(m_res', T)) <= 1
             /\ SlotsOf(m_res, T) \subseteq SlotsOf(m_res', T)
             /\ RegisterLoader(T) => SlotsOf(m_res', T) = {typeIds'[T]}]_vars

\* both types have an identifier and a slot, Connector having been used first,
\* and a resource has been loaded into a slot
C25_Witness ==
    /\ DOMAIN typeIds = Types
    /\ typeIds["Connector"] = 0
    /\ typeIds["Component"] = 1
    /\ \A T \in Types : SlotsOf(m_res, T) = {typeIds[T]}
    /\ \E k \in DOMAIN m_res : DOMAIN m_res[k].cache # {}

\* the id with every '.' replaced by '/', as the claim words it
Slashed(str) == [i \in 1..Len(str) |-> IF str[i] = "." THEN "/" ELSE str[i]]

\* C26: the file read on a cache miss for (T, id) is the directory of T's
\* loader, a separator, the id with every '.' replaced by '/' and nothing else
\* changed, and the extension ".json".
C26_IdToPath ==
    resource_path # NoPath
    => resource_path = LoaderDir(id_ty) \o <<"/">> \o Slashed(id_str) \o <<".json">>

--------------------------------------------------------------------------
(* Claims about the FreeList, checked under SpecList                      *)

\* the list as N emplaces into an empty list and one erase(k) leave it:
\* N slots, of which slot k alone is free
OneFreeSlot ==
    /\ VecSize >= 1
    /\ free # npos
    /\ Elem(free).next = npos

\* C4: after N >= 1 emplaces into an empty list and erase(k), 0 <= k < N, the
\* next emplace completes normally, returns index k and does not grow m_vec.
C4_SlotReuse ==
    [][\A v \in Values :
          (OneFreeSlot /\ Emplace(v))
          => /\ fres'.kind = "ok"
             /\ fres'.ret = free
             /\ Len(m_vec') = Len(m_vec)]_vars

\* C5: every index an emplace returned and no erase has taken since still
\* gives, through at(), the value that emplace stored.
C5_IndexStability ==
    \A i \in DOMAIN placed : i < VecSize /\ At(i) = placed[i]

\* an emplace has reused a freed slot while another element and another free
\* slot were in the list
C5_Witness ==
    /\ fres.op = "emplace" /\ fres.kind = "ok"
    /\ fres.ret < VecSize - 1
    /\ free # npos
    /\ \E i \in DOMAIN placed : i # fres.ret

\* C6: erase(i) on a slot that is already free throws, and leaves the slots,
\* the free chain and its head as they were.
C6_DoubleErase ==
    [][\A pos \in 0..(MaxSlots - 1) :
          (pos < VecSize /\ IsFree(pos) /\ Erase(pos))
          => /\ fres'.kind = "runtime_error"
             /\ m_vec' = m_vec
             /\ free' = free]_vars

\* a second erase of a slot was refused while another slot was free as well
C6_Witness ==
    /\ fres.op = "erase" /\ fres.kind = "runtime_error"
    /\ free_slots = 2

Increasing(sq) == \A a, b \in 1..Len(sq) : a < b => sq[a] < sq[b]

\* C7: a loop from begin() with operator++ ends at end() having visited exactly
\* the occupied slots, each once, in increasing order, index() being the slot.
C7_Iteration ==
    fres.op = "iterate"
    => /\ fres.kind \in {"running", "done", "break"}
       /\ Increasing(visited)
       /\ \A k \in 1..Len(visited) : visited[k] \in OccupiedSlots
       /\ fres.kind = "done" => {visited[k] : k \in 1..Len(visited)} = OccupiedSlots


\* the slots that were erased and have not been filled again
FreedSlots == {i \in 0..(VecSize - 1) : IsFree(i)}

\* C27: size() is the number of occupied slots, free_slots() the number of
\* freed slots not yet reused, and together they are the number of slots of
\* the backing vector.
C27_SizeAccounting ==
    /\ size = Cardinality(OccupiedSlots)
    /\ free_slots = Cardinality(FreedSlots)
    /\ size + free_slots = VecSize

\* an emplace has reused one of two freed slots of a list of three: two
\* occupied slots, one still free
C27_Witness ==
    /\ fres.op = "emplace"
    /\ fres.kind = "ok"
    /\ VecSize = 3
    /\ fres.ret < 2
    /\ size = 2
    /\ free_slots = 1

--------------------------------------------------------------------------
(* Claims about the board graph                                           *)

Graph == [nodes |-> m_nodes, edges |-> m_edges]

\* the documents of the basic case: node n1 of type T1, whose port pa has
\* slot 0, and edge e1 from {n1, pa} to a floating position; the node entry
\* lists the connection or lists none
C8_Docs ==
    {[nodes |-> [id \in {"n1"} |-> [type |-> "T1", pos |-> <<2, 0>>, conns |-> cs]],
      edges |-> [id \in {"e1"} |-> [conns |-> <<AttachedJson("n1", "pa"), FloatingJson(<<3, 3>>)>>]]] :
        cs \in {<<>>, <<ConnJson("pa", "e1", LEFT)>>}}

\* C8: loading the basic document into an empty graph succeeds, n1.port(0)
\* then resolves to e1 with side LEFT, and the RIGHT endpoint of e1 is floating.
C8_BasicLoad ==
    [][\A doc \in C8_Docs :
          (m_nodes = EmptyMap /\ m_edges = EmptyMap /\ FromJson(doc))
          => /\ gres'.kind = "ok"
             /\ "n1" \in DOMAIN m_nodes'
             /\ "e1" \in DOMAIN m_edges'
             /\ NodePort(m_nodes'["n1"], 0) = [edge |-> "e1", side |-> LEFT]
             /\ is_floating(m_edges'["e1"].conns[RIGHT + 1])]_vars

\* load_edge is reached for edge e of doc, e is not yet stored, and one of
\* the endpoints of e names a node that is in no entry of m_nodes by then
C9_Case(doc, e) ==
    /\ e \in DOMAIN doc.edges
    /\ e \notin DOMAIN m_edges
    /\ LET r == LoadNodes(Graph, 1, doc)
       IN  /\ r.kind = "ok"
           /\ \E i \in 1..Len(doc.edges[e].conns) :
                 /\ doc.edges[e].conns[i].shape = "node_port"
                 /\ doc.edges[e].conns[i].node \notin DOMAIN r.nodes

\* C9: a from_json that meets an edge with an endpoint naming an absent node
\* fails with an error, and the edge dictionary then has no entry for the edge.
C9_EdgeRollback ==
    [][\A doc \in Docs : \A e \in EdgeIds :
          (gres'.op = "from_json" /\ C9_Case(doc, e) /\ FromJson(doc))
          => (gres'.kind = "error" /\ e \notin DOMAIN m_edges')]_vars

\* C10: detach() on an attached endpoint of node n and port index p leaves it
\* floating, with port() empty and the stored position n.pos + offset of p.
C10_DetachResult ==
    [][\A e \in EdgeIds, sd \in Sides :
          (gres'.op = "detach" /\ Detach(e, sd) /\ ~is_floating(m_edges[e].conns[sd + 1]))
          => LET c == m_edges[e].conns[sd + 1]
                 n == m_nodes[c.comp]
                 after == m_edges'[e].conns[sd + 1]
             IN  /\ is_floating(after)
                 /\ ConnPort(after) = NoIdx
                 /\ after.slot = PosSlot(PAdd(n.pos, CompTypes[n.ty].ports[c.slot.val + 1].pos))]_vars

\* an endpoint attached to n1 (at 2,0) on port pa (offset 1,0) was detached
C10_Witness ==
    /\ gres.op = "detach"
    /\ gres.kind = "detached"
    /\ \E e \in DOMAIN m_edges, sd \in Sides :
          /\ is_floating(m_edges[e].conns[sd + 1])
          /\ m_edges[e].conns[sd + 1].slot = PosSlot(<<3, 0>>)

\* C11: detach() on an endpoint attached to node n at port index p leaves n
\* without an entry for p and leaves every other entry of n as it was.
C11_DetachClearsNode ==
    [][\A e \in EdgeIds, sd \in Sides :
          (gres'.op = "detach" /\ Detach(e, sd) /\ ~is_floating(m_edges[e].conns[sd + 1]))
          => LET c == m_edges[e].conns[sd + 1]
                 p == c.slot.val
                 before == m_nodes[c.comp].edges
                 after == m_nodes'[c.comp].edges
             IN  /\ p \notin DOMAIN after
                 /\ DOMAIN after = DOMAIN before \ {p}
                 /\ \A q \in DOMAIN after : after[q] = before[q]]_vars

\* C12: detach() on an endpoint that is already floating changes nothing: the
\* endpoint keeps its position and no port map of any node is touched.
C12_DetachIdempotent ==
    [][\A e \in EdgeIds, sd \in Sides :
          (gres'.op = "detach" /\ Detach(e, sd) /\ is_floating(m_edges[e].conns[sd + 1]))
          => (m_edges' = m_edges /\ m_nodes' = m_nodes)]_vars

\* both endpoints of e1 were attached (to n1 and to n2) and detached, port
\* maps have entries, and a further detach() has acted on one of the two
C12_Witness ==
    /\ gres.op = "detach"
    /\ gres.kind = "noop"
    /\ "e1" \in DOMAIN m_edges
    /\ m_edges["e1"].conns[LEFT + 1].slot = PosSlot(<<3, 0>>)
    /\ m_edges["e1"].conns[RIGHT + 1].slot = PosSlot(<<1, 2>>)
    /\ \E n \in DOMAIN m_nodes : m_nodes[n].edges # EmptyMap

\* C13: connnect_port on a port of the node's type that has no occupant
\* records (edge, side) there and returns the entry; on an occupied port with
\* force false it returns nothing and changes no port map and no edge.
C13_ConnectNoForce ==
    [][(gres'.op = "connnect_port" /\ gres'.args.port < NumPorts(m_nodes[gres'.args.n].ty))
          => LET n == gres'.args.n
                 port == gres'.args.port
                 e == gres'.args.e
                 sd == gres'.args.sd
                 force == gres'.args.force
             IN
             /\ port \notin DOMAIN m_nodes[n].edges
                => /\ gres'.kind = "ok"
                   /\ m_nodes' = [m_nodes EXCEPT ![n].edges =
                                     [q \in DOMAIN @ \cup {port} |->
                                         IF q = port THEN [edge |-> e, side |-> sd] ELSE @[q]]]
                   /\ m_edges' = m_edges
             /\ (port \in DOMAIN m_nodes[n].edges /\ ~force)
                => /\ gres'.kind = "empty"
                   /\ m_nodes' = m_nodes
                   /\ m_edges' = m_edges]_vars

\* a connnect_port without force has been refused on a port that an earlier
\* connnect_port had occupied
C13_Witness ==
    /\ gres.op = "connnect_port"
    /\ gres.kind = "empty"
    /\ connCalls = 2
    /\ \E n \in DOMAIN m_nodes : \E q \in DOMAIN m_nodes[n].edges : q < NumPorts(m_nodes[n].ty)

\* C14: connnect_port with force on a port occupied by (e_old, s_old) returns
\* the entry, leaves the endpoint e_old.side(s_old) floating, and afterwards the
\* port of the node resolves to exactly the new (edge, side).
C14_ConnectForce ==
    [][\A n \in NodeIds, port \in PortIdxs, e \in EdgeIds, sd \in Sides :
          (gres'.op = "connnect_port" /\ ConnectPort(n, port, e, sd, TRUE)
             /\ port < NumPorts(m_nodes[n].ty)
             /\ port \in DOMAIN m_nodes[n].edges)
          => LET old == m_nodes[n].edges[port]
             IN  /\ gres'.kind = "ok"
                 /\ is_floating(m_edges'[old.edge].conns[old.side + 1])
                 /\ port \in DOMAIN m_nodes'[n].edges
                 /\ m_nodes'[n].edges[port] = [edge |-> e, side |-> sd]]_vars

\* C15: after a connnect_port(port, e, sd) on node n that returned an entry,
\* the endpoint e.side(sd) is attached to n at that port: is_floating() is
\* false and port() is the port of that index.
C15_Reattach ==
    [][\A n \in NodeIds, port \in PortIdxs, e \in EdgeIds, sd \in Sides, force \in BOOLEAN :
          (gres'.op = "connnect_port" /\ gres'.kind = "ok"
             /\ ConnectPort(n, port, e, sd, force)
             /\ port < NumPorts(m_nodes[n].ty))
          => LET after == m_edges'[e].conns[sd + 1]
             IN  /\ ~is_floating(after)
                 /\ after.comp = n
                 /\ ConnPort(after) = SomeIdx(port)]_vars

\* C16: connnect_port with a port index that denotes no port of the node's
\* type returns nothing, neither throws nor aborts, and changes no port map
\* and no edge.
C16_ConnectNoSuchPort ==
    [][\A n \in NodeIds, port \in PortIdxs, e \in EdgeIds, sd \in Sides, force \in BOOLEAN :
          (gres'.op = "connnect_port" /\ ConnectPort(n, port, e, sd, force)
             /\ port >= NumPorts(m_nodes[n].ty))
          => /\ gres'.kind = "empty"
             /\ m_nodes' = m_nodes
             /\ m_edges' = m_edges]_vars

\* C17: every read of the union of a Connection reads the member the union
\* holds at that moment: a port index only while it holds the port index, a
\* position only while it holds the position.
C17_StorageDiscipline ==
    \A r \in reads : r.as = r.holding

\* C18: in every reachable graph, each key of a node's port map is the index
\* of a port of the node's type, and each attached endpoint names a node of
\* the node dictionary.
C18_ReferentialIntegrity ==
    /\ \A n \in DOMAIN m_nodes : \A q \in DOMAIN m_nodes[n].edges :
          m_nodes[n].ty # NoType /\ q < NumPorts(m_nodes[n].ty)
    /\ \A e \in DOMAIN m_edges : \A sd \in Sides :
          ~is_floating(m_edges[e].conns[sd + 1])
          => m_edges[e].conns[sd + 1].comp \in DOMAIN m_nodes

\* C19: for every graph reached by loading and editing, from_json of its
\* to_json on an empty graph succeeds and gives the same nodes with the same
\* positions and port maps and the same edges with the same endpoints.
C19_RoundTrip ==
    GraphAlive
    => LET r == Reloaded(Graph)
       IN  /\ r.kind = "ok"
           /\ r.nodes = m_nodes
           /\ r.edges = m_edges

\* every node entry of doc can be built from the component types alone: its
\* type is known and each of its connections names the first port of the type
NodesResolvable(doc) ==
    \A id \in DOMAIN doc.nodes :
        /\ doc.nodes[id].type \in DOMAIN CompTypes
        /\ "conns" \in DOMAIN doc.nodes[id]
        /\ \A i \in 1..Len(doc.nodes[id].conns) :
              doc.nodes[id].conns[i].port = CompTypes[doc.nodes[id].type].ports[1].id

\* C20: from_json loads every node of the document before any edge, and
\* loading a node needs no edge to be in the edge dictionary: whatever edges the
\* graph holds, every resolvable node of the document is in m_nodes afterwards.
C20_LoadOrder ==
    [][\A doc \in Docs :
          (gres'.op = "from_json" /\ NodesResolvable(doc) /\ FromJson(doc))
          => DOMAIN doc.nodes \subseteq DOMAIN m_nodes']_vars

\* C21: when load_node(id) fails inside from_json, the error names id and one
\* of the causes (missing field, type, port, edge), m_nodes has no entry for id
\* afterwards, no placeholder is left, and every entry that was there before
\* the call is as it was.
C21_NodeRollback ==
    [][(gres'.op = "from_json" /\ gres'.kind = "error" /\ gres'.err.at = "node")
          => /\ gres'.err.id \in NodeIds
             /\ gres'.err.cause \in {"field", "type", "port", "edge"}
             /\ gres'.err.id \notin DOMAIN m_nodes'
             /\ \A n \in DOMAIN m_nodes : n \in DOMAIN m_nodes' /\ m_nodes'[n] = m_nodes[n]
             /\ \A n \in DOMAIN m_nodes' : m_nodes'[n] # DefaultNode
             /\ m_edges' = m_edges]_vars

\* load_node("n2") failed on a missing field after n1 had been stored
C21_Witness ==
    /\ gres.op = "from_json"
    /\ gres.err = Err("node", "n2", "field")
    /\ DOMAIN m_nodes = {"n1"}

\* load_edge is reached for edge e of doc, e is not yet stored, and the conns
\* list of e does not have exactly two entries
C22_Case(doc, e) ==
    /\ e \in DOMAIN doc.edges
    /\ e \notin DOMAIN m_edges
    /\ Len(doc.edges[e].conns) # 2
    /\ LoadNodes(Graph, 1, doc).kind = "ok"

\* C22: an edge whose conns list has zero, one, or three or more entries makes
\* the load fail with an error and leaves no entry for the edge in m_edges.
C22_ExactlyTwo ==
    [][\A doc \in Docs : \A e \in EdgeIds :
          (gres'.op = "from_json" /\ C22_Case(doc, e) /\ FromJson(doc))
          => (gres'.kind = "error" /\ e \notin DOMAIN m_edges')]_vars

\* C23: a from_json leaves every node and every edge whose id the document
\* lists and the graph already holds exactly as it was, and when the graph
\* holds every listed id the call returns without error and changes nothing.
C23_LoadIdempotent ==
    [][gres'.op = "from_json"
          => LET oldNodes == gres'.listed.nodes \cap DOMAIN m_nodes
                 oldEdges == gres'.listed.edges \cap DOMAIN m_edges
             IN  /\ \A n \in oldNodes : n \in DOMAIN m_nodes' /\ m_nodes'[n] = m_nodes[n]
                 /\ \A e \in oldEdges : e \in DOMAIN m_edges' /\ m_edges'[e] = m_edges[e]
                 /\ (oldNodes = gres'.listed.nodes /\ oldEdges = gres'.listed.edges)
                    => /\ gres'.kind = "ok"
                       /\ m_nodes' = m_nodes
                       /\ m_edges' = m_edges]_vars

\* a second from_json has run on a document that lists n1 and e1 while the
\* graph held both
C23_Witness ==
    /\ gres.op = "from_json"
    /\ gres.kind = "ok"
    /\ loadCalls = 2
    /\ gres.listed = [nodes |-> {"n1"}, edges |-> {"e1"}]
    /\ "n1" \in DOMAIN m_nodes
    /\ "e1" \in DOMAIN m_edges


\* C28: the strong references among nodes and edges lead from nodes to edges
\* only, the references from edges to nodes are weak, and when m_nodes and
\* m_edges let go of their objects none of them stays alive.
C28_Ownership ==
    /\ \A r \in StrongRefs : r[1] \in NodeObjs /\ r[2] \in EdgeObjs
    /\ \A r \in EdgeToNodeRefs : r \notin StrongRefs
    /\ Surviving(NodeObjs \cup EdgeObjs) = {}

\* a node and an edge refer to each other: the port map of n1 holds e1 and an
\* endpoint of e1 is attached to n1
C28_Witness ==
    /\ <<<<"node", "n1">>, <<"edge", "e1">>>> \in StrongRefs
    /\ <<<<"edge", "e1">>, <<"node", "n1">>>> \in EdgeToNodeRefs


\* C29: after component(type, id, pos) the node returned is the one stored
\* under id, and the node stored under id has the given type and position.
C29_NodeCreation ==
    [][\A id \in NodeIds, pos \in {<<2, 0>>, <<0, 2>>} :
          (gres'.op = "component" /\ Component("T1", id, pos))
          => /\ gres'.stored
             /\ id \in DOMAIN m_nodes'
             /\ m_nodes'[id].ty = "T1"
             /\ m_nodes'[id].pos = pos]_vars


\* C30: BoardGraph(path, create, save) throws when the file exists and cannot
\* be parsed or loaded and when it is absent and create is false; when it is
\* absent and create is true the file exists afterwards and the graph is
\* empty; the destructor writes the graph to the file when save is true and
\* leaves the file alone when it is false.
C30_Lifecycle ==
    [][/\ \A create \in BOOLEAN, save \in BOOLEAN :
             Construct(create, save)
             => /\ (disk.st = "empty"
                      \/ (disk.st = "json" /\ from_json(NoDoc, disk.doc).kind = "error")
                      \/ (disk.st = "absent" /\ ~create))
                   => life' = "threw"
                /\ (disk.st = "absent" /\ create)
                   => /\ life' = "alive"
                      /\ disk'.st # "absent"
                      /\ m_nodes' = EmptyMap
                      /\ m_edges' = EmptyMap
       /\ Destroy
          => IF m_save
             THEN /\ disk'.st = "json"
                  /\ from_json(NoDoc, disk'.doc).kind = "ok"
             ELSE disk' = disk]_vars


--------------------------------------------------------------------------
(* Claims about SingleVec and StackVec, checked under SpecVec             *)

\* C31: a SingleVec made with a first element never has size() below 1 under
\* push_back and pop_back, and pop_back at size 1 leaves the element there.
C31_KeepsOne ==
    [][/\ Len(m_elems') >= 1
       /\ (SingleVec_pop_back /\ Len(m_elems) = 1) => m_elems' = m_elems]_vars

\* pop_back has acted on a SingleVec that held its first element only
C31_Witness ==
    /\ svres.op = "pop_back"
    /\ svres.before = 1
    /\ m_elems = <<14>>


\* C40: clear() on any StackVec, empty or not, returns and leaves size() = 0.
C40_ClearTerminates ==
    [][StackVec_clear => (kres'.kind # "hang" /\ m_len' = 0)]_vars


--------------------------------------------------------------------------
(* Claims about the order of reuse and the assertion of emplace, checked  *)
(* under SpecList                                                         *)

\* C32: while erased slots wait to be reused, emplace returns the one erased
\* most recently; once none is left it returns a new index, the number of
\* slots allocated before the call.
C32_ReuseOrder ==
    [][\A v \in Values :
          Emplace(v)
          => /\ fres'.kind = "ok"
             /\ IF erased # <<>>
                THEN /\ fres'.ret = erased[Len(erased)]
                     /\ Len(m_vec') = Len(m_vec)
                ELSE /\ fres'.ret = VecSize
                     /\ Len(m_vec') = VecSize + 1]_vars

\* C33: whenever a slot is free, the head of the free chain is below size(),
\* as emplace asserts before it reuses the head.
C33_AssertHolds ==
    free # npos => EmplaceAssert


--------------------------------------------------------------------------
(* Claims about port lookup and the endpoints of a loaded edge, checked   *)
(* under SpecGraph                                                        *)

\* the port names the documents use: two ports of T1 and one it does not have
PortNames == {"pa", "pb", "px"}

\* the slots of a component type whose port has the given name
SlotsNamed(ty, name) ==
    {i \in 0..(Len(CompTypes[ty].ports) - 1) : CompTypes[ty].ports[i + 1].id = name}

\* C34: get_port_idx(id) returns and gives a slot whose port has that id,
\* whatever the slot's position among the ports, and nothing when no port has it.
C34_PortLookup ==
    \A ty \in DOMAIN CompTypes, name \in PortNames :
       LET r == get_port_idx(ty, name)
       IN  /\ r.kind \in {"some", "none"}
           /\ r.kind = "some" => r.idx \in SlotsNamed(ty, name)
           /\ r.kind = "none" => SlotsNamed(ty, name) = {}

\* what the claim says of one endpoint entry, given the nodes loaded so far
C35_Case(nodes, cj) ==
    LET r == LoadEndpoint(nodes, cj)
    IN  IF /\ cj.shape = "node_port"
           /\ cj.node \in DOMAIN nodes
           /\ SlotsNamed(nodes[cj.node].ty, cj.port) # {}
        THEN /\ r.kind = "ok"
             /\ r.conn.comp = cj.node
             /\ r.conn.slot.tag = "port"
             /\ r.conn.slot.val \in SlotsNamed(nodes[cj.node].ty, cj.port)
        ELSE IF cj.shape = "pos"
        THEN /\ r.kind = "ok"
             /\ is_floating(r.conn)
             /\ r.conn.slot = PosSlot(cj.pos)
        ELSE r.kind = "error"

\* C35: load_edge makes an entry with node and port an attached endpoint at
\* the port of that name, an entry with pos a floating endpoint there, and
\* fails on every other entry: no such node, no such port, neither shape.
C35_EndpointShape ==
    (GraphAlive /\ \A n \in DOMAIN m_nodes : m_nodes[n].ty \in DOMAIN CompTypes)
    => \A cj \in EndpointJsons : C35_Case(m_nodes, cj)


--------------------------------------------------------------------------
(* Claims about the consistency of nodes and edges and about positions,   *)
(* checked under SpecEdit; about a failed load, under SpecGraph           *)

\* node n lists (e, sd) at port p
NodeLists(n, p, e, sd) ==
    /\ n \in DOMAIN m_nodes
    /\ p \in DOMAIN m_nodes[n].edges
    /\ m_nodes[n].edges[p] = [edge |-> e, side |-> sd]

\* endpoint sd of edge e is attached to node n at port index p
AttachedAt(e, sd, n, p) ==
    /\ e \in DOMAIN m_edges
    /\ ~m_edges[e].null
    /\ m_edges[e].conns[sd + 1].comp = n
    /\ m_edges[e].conns[sd + 1].slot = PortSlot(p)

\* C36: after a from_json that succeeded and any connnect_port and detach()
\* calls, node n lists (e, sd) at port p exactly when endpoint sd of e is
\* attached to n at port p.
C36_MutualConsistency ==
    (GraphAlive /\ loadCalls > 0 /\ gres.kind # "error")
    => \A n \in NodeIds, p \in PortIdxs, e \in EdgeIds, sd \in Sides :
          NodeLists(n, p, e, sd) <=> AttachedAt(e, sd, n, p)

\* WireEdge::Connection::pos() of an endpoint, given the nodes
ConnPos(nodes, c) ==
    IF ~is_floating(c) THEN PortPos(nodes[c.comp].ty, c.slot.val) ELSE c.slot.val

\* C37: pos() of an attached endpoint just before detach() equals pos() of
\* the endpoint just after it.
C37_PosContinuity ==
    [][\A e \in EdgeIds, sd \in Sides :
          (gres'.op = "detach" /\ Detach(e, sd) /\ ~is_floating(m_edges[e].conns[sd + 1]))
          => ConnPos(m_nodes', m_edges'[e].conns[sd + 1])
                = ConnPos(m_nodes, m_edges[e].conns[sd + 1])]_vars

\* C38: a from_json that throws leaves the node dictionary and the edge
\* dictionary exactly as they were before the call.
C38_AtomicLoad ==
    [][(gres'.op = "from_json" /\ gres'.kind = "error")
          => (m_nodes' = m_nodes /\ m_edges' = m_edges)]_vars


--------------------------------------------------------------------------
(* Claim about the cache after a failed load, checked under SpecRetry     *)

\* the cache of a slot gives no live object for id
Stale(slot, id, os) ==
    \/ id \notin DOMAIN slot.cache
    \/ slot.cache[id] = NoObj
    \/ os[slot.cache[id]].held = 0

\* C39: a try_get<T>(id) that fails while reading, parsing or loading leaves
\* the cached entries of every other id and the objects they resolve to as
\* they were and caches nothing for id; a try_get<T>(id) that finds no live
\* object cached, as after such a failure, reads the file again and succeeds
\* when the file is valid by then.
C39_NoPoison ==
    [][\A T \in Types, id \in ResIds :
          (TryGet(T, id) /\ TypeIdVal(T) \in DOMAIN m_res)
          => LET tid == TypeIdVal(T)
             IN  /\ sres'.kind = "load_error"
                    => /\ objs' = objs
                       /\ DOMAIN m_res' = DOMAIN m_res
                       /\ \A t \in DOMAIN m_res : \A k \in DOMAIN m_res[t].cache :
                             (t # tid \/ k # id)
                             => /\ k \in DOMAIN m_res'[t].cache
                                /\ m_res'[t].cache[k] = m_res[t].cache[k]
                       /\ Stale(m_res'[tid], id, objs')
                 /\ Stale(m_res[tid], id, objs)
                    => /\ fileReads' = fileReads + 1
                       /\ files[<<T, id>>] = "valid"
                          => /\ sres'.kind = "loaded"
                             /\ objs'[sres'.obj].held > 0
                             /\ ~Stale(m_res'[tid], id, objs')]_vars

\* a load of a resource was rejected by the loader, its file was then made
\* valid, and a second try_get of the same resource has loaded it: no other
\* resource has a cache entry and only one object was ever made
C39_Witness ==
    /\ sres.kind = "loaded"
    /\ sres.ty = "Component" /\ sres.id = "r1"
    /\ fileReads = 2
    /\ loads = 2
    /\ fileChanges = 1
    /\ Len(objs) = 1
    /\ \A t \in DOMAIN m_res :
          DOMAIN m_res[t].cache \subseteq (IF m_res[t].loader = sres.ty THEN {sres.id} ELSE {})

======================================================================
